---- MODULE Spec2Model ----
(***************************************************************************)
(* Model of bitcoinlib's Bitaps service client                             *)
(* (src/bitcoinlib/services/bitaps.py) and of the wallet database schema   *)
(* (src/bitcoinlib/db.py).                                                 *)
(*                                                                         *)
(*   Spec         the paged fetch loops getutxos / gettransactions         *)
(*   SpecLive     one call of a fetch loop, followed to its end            *)
(*   SpecParse    _parse_transaction applied to a universe of payloads     *)
(*   SpecStore    writes against the tables of db.py and their constraints *)
(*   SpecKeys     writes of key material against the keys table            *)
(*   SpecTree     wallets and their parent links                           *)
(*   SpecCascade  keys, transactions, inputs, outputs and cascading deletes*)
(*   SpecMerge    two sync runs upserting the same (wallet, hash)          *)
(***************************************************************************)
EXTENDS Integers, Sequences, FiniteSets, TLC

VARIABLES
    \* ---- provider (Bitaps) ----
    history,      \* ascending transaction history of the address: Seq of txIds
    zeroPage,     \* what the provider answers to the out-of-range page 0
    \* ---- one client call (getutxos / gettransactions) ----
    fn,           \* "none", "getutxos" or "gettransactions"
    address,      \* the queried address
    after_txid,   \* cursor argument
    max_txs,      \* cap argument
    page,         \* local variable page
    collected,    \* local list utxos / txs
    requests,     \* page numbers requested so far by this call
    pc,           \* "idle", "loop", "return", "done", "error" (KeyError raised)
                  \* or "failed" (the page request raised)
    result,       \* returned list (valid when pc = "done")
    prevCall,     \* the call before this one, when it was a completed full
                  \* sync (empty cursor); NoCall otherwise
    \* ---- _parse_transaction applied to one payload (SpecParse) ----
    payload,      \* the payload fetched for the transaction
    parsed,       \* the Transaction built from it
    prev_status,  \* the status derived by the previous parse of the transaction
    ppc,          \* "idle", "fetched", "parsed" or "raised"
    \* ---- the database (db.py): one set of rows per table ----
    wallets,
    keys,
    transactions,
    inputs,
    outputs,
    lastWrite,    \* the last statement sent to the store and its outcome
    \* ---- sync runs upserting into transactions (SpecMerge) ----
    run_pc,       \* per run: "idle", "insert", "update" or "done"
    run_rec,      \* per run: the record it is upserting
    last_upsert   \* per hash: the record of the upsert that completed last

fetchVars == <<history, zeroPage, fn, address, after_txid, max_txs, page,
               collected, requests, pc, result, prevCall>>

parseVars == <<payload, parsed, prev_status, ppc>>

tableVars == <<wallets, keys, transactions, inputs, outputs>>

storeVars == <<tableVars, lastWrite>>

mergeVars == <<run_pc, run_rec, last_upsert>>

vars == <<fetchVars, parseVars, storeVars, mergeVars>>

-----------------------------------------------------------------------------
(* Bounds of the model *)

\* longest provider history
MaxHist == 3
\* items per page (the code asks for limit = 50; scaled down)
PageSize == 2
\* largest max_txs argument tried
MaxMaxTxs == 4

-----------------------------------------------------------------------------
(* Helpers *)

Min(a, b) == IF a < b THEN a ELSE b

\* Python's s[:n] for n >= 0
Take(s, n) == SubSeq(s, 1, Min(n, Len(s)))

\* Python's None, for an integer attribute and for a string attribute
NoneInt == -1
NoneStr == "None"

RECURSIVE Concat(_)
Concat(ss) == IF ss = <<>> THEN <<>> ELSE Head(ss) \o Concat(Tail(ss))

-----------------------------------------------------------------------------
(* The provider: payloads of the address history.                          *)
(* A payload is a record whose DOMAIN is the set of keys present in the    *)
(* JSON object, so that Python's  'k' in tx  is  "k" \in DOMAIN tx  and a   *)
(* read of an absent key is a KeyError.                                    *)

Addresses == {"addrA", "addrB"}
TxIds == {"t1", "t2", "t3", "t4", "t5"}

\* rawTx stands for the raw transaction; the codec (Transaction.import_raw)
\* reads from it the coinbase flag and the numbers of inputs and outputs.
Payload(id) ==
    CASE id = "t1" ->   \* confirmed legacy transaction, first output nulldata
           [txId |-> "t1", hash |-> "t1", confirmations |-> 3,
            blockHeight |-> 100, blockHash |-> "b100", timestamp |-> 10,
            fee |-> 1, size |-> 200, inputsAmount |-> 6, outputsAmount |-> 5,
            rawTx |-> [coinbase |-> FALSE, nIn |-> 1, nOut |-> 3],
            vIn |-> <<[amount |-> 6]>>,
            vOut |-> <<[spent |-> FALSE, value |-> 0, scriptPubKey |-> "s10"],
                       [address |-> "addrA", spent |-> FALSE, value |-> 3,
                        scriptPubKey |-> "s11"],
                       [address |-> "addrB", spent |-> FALSE, value |-> 2,
                        scriptPubKey |-> "s12"]>>]
      [] id = "t2" ->   \* confirmed segwit transaction: hash (wtxid) # txId
           [txId |-> "t2", hash |-> "w2", confirmations |-> 2,
            blockHeight |-> 101, blockHash |-> "b101", timestamp |-> 11,
            fee |-> 2, size |-> 150, inputsAmount |-> 7, outputsAmount |-> 5,
            rawTx |-> [coinbase |-> FALSE, nIn |-> 2, nOut |-> 2],
            vIn |-> <<[amount |-> 3], [amount |-> 4]>>,
            vOut |-> <<[address |-> "addrA", spent |-> TRUE, value |-> 4,
                        scriptPubKey |-> "s20"],
                       [address |-> "addrA", spent |-> FALSE, value |-> 1,
                        scriptPubKey |-> "s21"]>>]
      [] id = "t3" ->   \* unconfirmed transaction: no block data yet
           [txId |-> "t3", hash |-> "t3", confirmations |-> 0,
            timestamp |-> 12,
            fee |-> 1, size |-> 120, inputsAmount |-> 4, outputsAmount |-> 3,
            rawTx |-> [coinbase |-> FALSE, nIn |-> 1, nOut |-> 2],
            vIn |-> <<[amount |-> 4]>>,
            vOut |-> <<[address |-> "addrA", spent |-> FALSE, value |-> 2,
                        scriptPubKey |-> "s30"],
                       [spent |-> FALSE, value |-> 1,
                        scriptPubKey |-> "s31"]>>]
      [] id = "t5" ->   \* malformed item: the fee key is missing
           [txId |-> "t5", hash |-> "t5", confirmations |-> 1,
            blockHeight |-> 102, blockHash |-> "b102", timestamp |-> 13,
            size |-> 110, inputsAmount |-> 3, outputsAmount |-> 2,
            rawTx |-> [coinbase |-> FALSE, nIn |-> 1, nOut |-> 1],
            vIn |-> <<[amount |-> 3]>>,
            vOut |-> <<[address |-> "addrB", spent |-> FALSE, value |-> 2,
                        scriptPubKey |-> "s50"]>>]
      [] OTHER ->       \* "t4": confirmed coinbase transaction
           [txId |-> "t4", hash |-> "t4", confirmations |-> 5,
            blockHeight |-> 99, blockHash |-> "b99", timestamp |-> 9,
            fee |-> 0, size |-> 100, inputsAmount |-> 0, outputsAmount |-> 50,
            rawTx |-> [coinbase |-> TRUE, nIn |-> 1, nOut |-> 2],
            vIn |-> <<[sequence |-> 0]>>,
            vOut |-> <<[address |-> "addrB", spent |-> FALSE, value |-> 30,
                        scriptPubKey |-> "s40"],
                       [address |-> "addrA", spent |-> TRUE, value |-> 20,
                        scriptPubKey |-> "s41"]>>]

\* res['data']['pages']
Pages(h) == (Len(h) + PageSize - 1) \div PageSize

\* res['data']['list'] for the requested page number p.  Pages are numbered
\* 1..Pages(h).  Page 0 is out of range: the provider either answers it
\* like its default page 1 or with an empty list (zp).
PageIds(h, p, zp) ==
    LET q == IF p = 0 /\ zp = "first" THEN 1 ELSE p
    IN  IF q < 1 \/ q > Pages(h) THEN <<>>
        ELSE SubSeq(h, (q - 1) * PageSize + 1, Min(q * PageSize, Len(h)))

PageList(h, p, zp) ==
    LET ids == PageIds(h, p, zp) IN [i \in 1..Len(ids) |-> Payload(ids[i])]

-----------------------------------------------------------------------------
(* Transaction.import_raw: the transaction codec.  It yields the           *)
(* transaction value decoded from the raw bytes, with the constructor's    *)
(* defaults for everything the raw bytes do not carry.                     *)

import_raw(rawTx) ==
    [hash |-> NoneStr, status |-> "new", confirmations |-> NoneInt,
     date |-> NoneInt, block_height |-> NoneInt, block_hash |-> NoneStr,
     fee |-> NoneInt, size |-> NoneInt, coinbase |-> rawTx.coinbase,
     inputs |-> [i \in 1..rawTx.nIn |-> [index_n |-> i - 1, value |-> 0]],
     outputs |-> [o \in 1..rawTx.nOut |-> [output_n |-> o - 1, spent |-> FALSE]],
     input_total |-> 0, output_total |-> 0]

\* tx['vIn'][str(n)] / tx['vOut'][str(n)] exists
HasIndex(seq, n) == n + 1 \in 1..Len(seq)

\* _parse_transaction raises KeyError: a key it reads is absent
parse_raises(tx) ==
    \/ ~({"rawTx", "confirmations", "txId", "fee", "size", "vOut",
          "outputsAmount"} \subseteq DOMAIN tx)
    \/ "blockHeight" \in DOMAIN tx /\ "blockHash" \notin DOMAIN tx
    \/ LET t == import_raw(tx.rawTx) IN
         \/ /\ ~t.coinbase
            /\ \/ ~({"vIn", "inputsAmount"} \subseteq DOMAIN tx)
               \/ \E k \in 1..Len(t.inputs) :
                     \/ ~HasIndex(tx.vIn, t.inputs[k].index_n)
                     \/ "amount" \notin DOMAIN tx.vIn[t.inputs[k].index_n + 1]
         \/ \E k \in 1..Len(t.outputs) :
               \/ ~HasIndex(tx.vOut, t.outputs[k].output_n)
               \/ "spent" \notin DOMAIN tx.vOut[t.outputs[k].output_n + 1]

\* Python truthiness of a count: 0 and None are falsy
Truthy(n) == n # 0 /\ n # NoneInt

\* Faulty variant of derive_status: a transaction once seen confirmed stays confirmed.
derive_status_sticky(tx) ==
    IF Truthy(tx.confirmations) \/ prev_status = "confirmed"
    THEN "confirmed" ELSE "unconfirmed"

\* Faulty variant of derive_status: the test of the confirmations is inverted.
derive_status_inverted(tx) ==
    IF Truthy(tx.confirmations) THEN "unconfirmed" ELSE "confirmed"

\* t.status: 'unconfirmed', then 'confirmed' if tx['confirmations'] is truthy
derive_status(tx) ==
    IF Truthy(tx.confirmations) THEN "confirmed" ELSE "unconfirmed"

\* t.date
derive_date(tx) ==
    IF "timestamp" \in DOMAIN tx THEN tx.timestamp
    ELSE IF "blockTime" \in DOMAIN tx THEN tx.blockTime
    ELSE NoneInt

\* i.value for every input: looked up unless the transaction is a coinbase
input_values(t, tx) ==
    IF ~t.coinbase
    THEN [k \in 1..Len(t.inputs) |->
            [t.inputs[k] EXCEPT !.value = tx.vIn[t.inputs[k].index_n + 1].amount]]
    ELSE t.inputs

\* o.spent for every output
output_flags(t, tx) ==
    [k \in 1..Len(t.outputs) |->
        IF tx.vOut[t.outputs[k].output_n + 1].spent
        THEN [t.outputs[k] EXCEPT !.spent = TRUE]
        ELSE t.outputs[k]]

\* Faulty variant of derive_input_total: the provider's input total is used for a
\* coinbase too.
derive_input_total_no_coinbase(t, tx) == tx.inputsAmount

\* t.input_total
derive_input_total(t, tx) ==
    IF t.coinbase THEN tx.outputsAmount - tx.fee ELSE tx.inputsAmount

\* _parse_transaction(tx), for a payload on which it does not raise
_parse_transaction(tx) ==
    LET t == import_raw(tx.rawTx) IN
    [t EXCEPT !.status = derive_status(tx),
              !.hash = tx.txId,
              !.date = derive_date(tx),
              !.confirmations = tx.confirmations,
              !.block_height = IF "blockHeight" \in DOMAIN tx
                               THEN tx.blockHeight ELSE @,
              !.block_hash = IF "blockHeight" \in DOMAIN tx
                             THEN tx.blockHash ELSE @,
              !.fee = tx.fee,
              !.size = tx.size,
              !.inputs = input_values(t, tx),
              !.outputs = output_flags(t, tx),
              !.input_total = derive_input_total(t, tx),
              !.output_total = tx.outputsAmount]

-----------------------------------------------------------------------------
(* gettransactions: the body of the for loop over one page *)

\* Faulty variant of gettransactions_item: the cursor is tested before the append, so
\* the cursor item itself survives the reset.
gettransactions_item_reset_first(txs, tx, after) ==
    Append(IF tx.txId = after THEN <<>> ELSE txs, _parse_transaction(tx))

\* lines 99-101: append the parsed item, then reset on the cursor
gettransactions_item(txs, tx, after) ==
    LET appended == Append(txs, _parse_transaction(tx))
    IN  IF tx.txId = after THEN <<>> ELSE appended

RECURSIVE gettransactions_for(_, _, _)
gettransactions_for(list, txs, after) ==
    IF list = <<>> THEN [ok |-> TRUE, list |-> txs]
    ELSE IF parse_raises(Head(list)) THEN [ok |-> FALSE, list |-> <<>>]
    ELSE gettransactions_for(Tail(list),
                             gettransactions_item(txs, Head(list), after), after)

-----------------------------------------------------------------------------
(* getutxos: the body of the for loop over one page *)

\* Faulty variant of utxo_skipped: the spent flag is not looked at.
utxo_skipped_ignores_spent(utxo, addr) ==
    \/ "address" \notin DOMAIN utxo
    \/ utxo.address # addr

\* line 68: the output is skipped (continue)
utxo_skipped(utxo, addr) ==
    \/ "address" \notin DOMAIN utxo
    \/ utxo.address # addr
    \/ utxo.spent

\* lines 70-84: the record appended for output number n (0-based) of tx
utxo_record(tx, n) ==
    LET utxo == tx.vOut[n + 1] IN
    [address |-> utxo.address, tx_hash |-> tx.txId,
     confirmations |-> tx.confirmations, output_n |-> n, input_n |-> 0,
     block_height |-> tx.blockHeight, fee |-> NoneInt, size |-> 0,
     value |-> utxo.value, script |-> utxo.scriptPubKey,
     date |-> tx.timestamp]

\* a key read at lines 66-85 is absent (KeyError)
getutxos_raises(tx, addr) ==
    \/ ~({"vOut", "hash"} \subseteq DOMAIN tx)
    \/ \E k \in 1..Len(tx.vOut) :
          LET utxo == tx.vOut[k] IN
          /\ "address" \in DOMAIN utxo
          /\ utxo.address = addr
          /\ \/ "spent" \notin DOMAIN utxo
             \/ /\ ~utxo.spent
                /\ ~({"txId", "confirmations", "blockHeight", "timestamp"}
                        \subseteq DOMAIN tx
                     /\ {"value", "scriptPubKey"} \subseteq DOMAIN utxo)

\* lines 66-84: the records one transaction adds, in the order of its outputs
RECURSIVE tx_utxos(_, _, _)
tx_utxos(tx, addr, k) ==
    IF k > Len(tx.vOut) THEN <<>>
    ELSE (IF utxo_skipped(tx.vOut[k], addr) THEN <<>>
          ELSE <<utxo_record(tx, k - 1)>>) \o tx_utxos(tx, addr, k + 1)

\* line 85: the cursor test of getutxos
getutxos_cursor_hit(tx, after) == tx.hash = after

\* lines 66-86: append the transaction's records, then reset on the cursor
getutxos_item(utxos, tx, addr, after) ==
    LET appended == utxos \o tx_utxos(tx, addr, 1)
    IN  IF getutxos_cursor_hit(tx, after) THEN <<>> ELSE appended

RECURSIVE getutxos_for(_, _, _, _)
getutxos_for(list, utxos, addr, after) ==
    IF list = <<>> THEN [ok |-> TRUE, list |-> utxos]
    ELSE IF getutxos_raises(Head(list), addr) THEN [ok |-> FALSE, list |-> <<>>]
    ELSE getutxos_for(Tail(list),
                      getutxos_item(utxos, Head(list), addr, after), addr, after)

-----------------------------------------------------------------------------
(* The database schema of db.py.  A table is a set of rows; a row is a     *)
(* record of the columns the constraints read.  NULL is NoneStr / NoneInt. *)

\* the enumerations of the CHECK constraints
WalletSchemes == {"single", "bip32"}
WalletEncodings == {"base58", "bech32"}
WalletWitnessTypes == {"legacy", "segwit", "p2sh-segwit"}
KeyTypes == {"single", "bip32", "multisig"}
KeyEncodings == {"base58", "bech32"}
TransactionStatuses == {"new", "incomplete", "unconfirmed", "confirmed"}
TransactionWitnessTypes == {"legacy", "segwit"}
InputScriptTypes == {"", "coinbase", "sig_pubkey", "p2sh_multisig", "signature",
                     "unknown", "p2sh_p2wpkh", "p2sh_p2wsh"}
InputWitnessTypes == {"legacy", "segwit", "p2sh-segwit"}
OutputScriptTypes == {"", "p2pkh", "multisig", "p2sh", "p2pk", "nulldata",
                      "unknown", "p2wpkh", "p2wsh"}

\* CHECK (col IN (...)): SQL rejects a row only when the test is false; on a
\* NULL column the test is unknown and the row passes
sql_check_in(v, allowed) == v = NoneStr \/ v \in allowed

\* UNIQUE (cols): no other row holds the same values; rows with a NULL in
\* one of the columns never collide (ints are the integer columns, strs the
\* string columns)
sql_unique(row, others, ints, strs) ==
    ((\A c \in strs : row[c] # NoneStr) /\ (\A c \in ints : row[c] # NoneInt))
    => \A r \in others : \E c \in ints \cup strs : r[c] # row[c]

DbWallet_checks(row) ==
    /\ sql_check_in(row.scheme, WalletSchemes)
    /\ sql_check_in(row.encoding, WalletEncodings)
    /\ sql_check_in(row.witness_type, WalletWitnessTypes)

DbWallet_unique(row, others) == sql_unique(row, others, {}, {"name"})

DbKey_checks(row) ==
    /\ sql_check_in(row.key_type, KeyTypes)
    /\ sql_check_in(row.encoding, KeyEncodings)

\* Faulty variant of DbKey_unique: the (wallet_id, wif) constraint is missing.
DbKey_unique_no_wif(row, others) ==
    /\ sql_unique(row, others, {"wallet_id"}, {"public"})
    /\ sql_unique(row, others, {"wallet_id"}, {"private"})
    /\ sql_unique(row, others, {"wallet_id"}, {"address"})

DbKey_unique(row, others) ==
    /\ sql_unique(row, others, {"wallet_id"}, {"public"})
    /\ sql_unique(row, others, {"wallet_id"}, {"private"})
    /\ sql_unique(row, others, {"wallet_id"}, {"wif"})
    /\ sql_unique(row, others, {"wallet_id"}, {"address"})

\* Faulty variant of DbTransaction_checks: the status constraint is missing.
DbTransaction_checks_no_status(row) ==
    sql_check_in(row.witness_type, TransactionWitnessTypes)

DbTransaction_checks(row) ==
    /\ sql_check_in(row.status, TransactionStatuses)
    /\ sql_check_in(row.witness_type, TransactionWitnessTypes)

\* Faulty variant of DbTransaction_unique: the (wallet_id, hash) constraint is missing.
DbTransaction_unique_missing(row, others) == TRUE

DbTransaction_unique(row, others) ==
    sql_unique(row, others, {"wallet_id"}, {"hash"})

DbTransactionInput_checks(row) ==
    /\ sql_check_in(row.script_type, InputScriptTypes)
    /\ sql_check_in(row.witness_type, InputWitnessTypes)

\* primary key (transaction_id, index_n)
DbTransactionInput_pk(row, others) ==
    \A r \in others :
        r.transaction_id # row.transaction_id \/ r.index_n # row.index_n

DbTransactionOutput_checks(row) ==
    sql_check_in(row.script_type, OutputScriptTypes)

\* primary key (transaction_id, output_n)
DbTransactionOutput_pk(row, others) ==
    \A r \in others :
        r.transaction_id # row.transaction_id \/ r.output_n # row.output_n

\* the id the Sequence / rowid gives a new row
next_id(rows) ==
    1 + (IF rows = {} THEN 0
         ELSE CHOOSE m \in {r.id : r \in rows} : \A r \in rows : r.id <= m)

\* the variables of the database, at rest
NoWrite == [table |-> "none", accepted |-> FALSE]

StoreIdle ==
    /\ wallets = {}
    /\ keys = {}
    /\ transactions = {}
    /\ inputs = {}
    /\ outputs = {}
    /\ lastWrite = NoWrite

\* the variables of SpecMerge, at rest
Runs == {"r1", "r2"}
MergeHashes == {"t1", "t2"}
NoRec == [hash |-> NoneStr]

MergeIdle ==
    /\ run_pc = [r \in Runs |-> "idle"]
    /\ run_rec = [r \in Runs |-> NoRec]
    /\ last_upsert = [h \in MergeHashes |-> NoRec]

-----------------------------------------------------------------------------
(* The fetch loops as a state machine *)

Cursors == {""} \cup TxIds \cup {"w2", "zz"}

NoCall == [fn |-> "none", max_txs |-> 0, result |-> <<>>]

RECURSIVE DistinctSeqs(_, _)
DistinctSeqs(S, n) ==
    IF n = 0 THEN {<<>>}
    ELSE LET shorter == DistinctSeqs(S, n - 1) IN
         shorter \cup {Append(s, x) : s \in {r \in shorter : Len(r) = n - 1},
                                     x \in S} 

\* the provider lists the transactions oldest first (order = 1, lines 62/96)
Histories ==
    {h \in DistinctSeqs(TxIds, MaxHist) :
        \A i, j \in 1..Len(h) :
           i < j => Payload(h[i]).timestamp < Payload(h[j]).timestamp}

\* the variables of SpecParse, at rest
NoPayload == [rawTx |-> [coinbase |-> FALSE, nIn |-> 0, nOut |-> 0]]

ParseIdle ==
    /\ payload = NoPayload
    /\ parsed = import_raw(NoPayload.rawTx)
    /\ prev_status = "new"
    /\ ppc = "idle"

Init ==
    /\ history \in Histories
    /\ zeroPage \in {"first", "empty"}
    /\ address \in Addresses
    /\ fn = "none"
    /\ after_txid = ""
    /\ max_txs = 0
    /\ page = 0
    /\ collected = <<>>
    /\ requests = <<>>
    /\ pc = "idle"
    /\ result = <<>>
    /\ prevCall = NoCall
    /\ ParseIdle
    /\ StoreIdle
    /\ MergeIdle

Callable == pc \in {"idle", "done", "error", "failed"}

\* what the next call remembers of the call that has just ended
CompletedFull ==
    IF pc = "done" /\ after_txid = ""
    THEN [fn |-> fn, max_txs |-> max_txs, result |-> result]
    ELSE NoCall

\* lines 58-60: getutxos(address, after_txid, max_txs) is entered
getutxos_call ==
    /\ Callable
    /\ \E a \in Cursors, m \in 1..MaxMaxTxs :
          /\ after_txid' = a
          /\ max_txs' = m
    /\ fn' = "getutxos"
    /\ page' = 1
    /\ collected' = <<>>
    /\ requests' = <<>>
    /\ result' = <<>>
    /\ pc' = "loop"
    /\ prevCall' = CompletedFull
    /\ UNCHANGED <<history, zeroPage, address>>
    /\ UNCHANGED <<parseVars, storeVars, mergeVars>>

\* lines 92-94: gettransactions(address, after_txid, max_txs) is entered
gettransactions_call ==
    /\ Callable
    /\ \E a \in Cursors, m \in 1..MaxMaxTxs :
          /\ after_txid' = a
          /\ max_txs' = m
    /\ fn' = "gettransactions"
    /\ page' = 0
    /\ collected' = <<>>
    /\ requests' = <<>>
    /\ result' = <<>>
    /\ pc' = "loop"
    /\ prevCall' = CompletedFull
    /\ UNCHANGED <<history, zeroPage, address>>
    /\ UNCHANGED <<parseVars, storeVars, mergeVars>>

\* Faulty variant of unwind: the list collected so far outlives the exception.
unwind_keeps_partial(list) == list

\* An exception raised inside the loop is caught nowhere in getutxos or
\* gettransactions: it leaves the frame, the local list is dropped with it
\* and no return statement runs.
unwind(list) == <<>>

\* Faulty variant of loop_exit: one more page is requested before the loop is left.
loop_exit_late(p, pages) == p > pages + 1

\* lines 87-89 / 102-104: page += 1; leave the loop when page > pages
loop_exit(p, pages) == p > pages

\* lines 61-89: one iteration of the while loop of getutxos
getutxos_page ==
    /\ pc = "loop"
    /\ fn = "getutxos"
    /\ LET r == getutxos_for(PageList(history, page, zeroPage), collected,
                             address, after_txid)
       IN  /\ requests' = Append(requests, page)
           /\ IF r.ok
              THEN /\ collected' = r.list
                   /\ page' = page + 1
                   /\ pc' = IF loop_exit(page + 1, Pages(history))
                            THEN "return" ELSE "loop"
              ELSE /\ collected' = unwind(collected)
                   /\ page' = page
                   /\ pc' = "error"
    /\ UNCHANGED <<history, zeroPage, fn, address, after_txid, max_txs,
                   result, prevCall>>
    /\ UNCHANGED <<parseVars, storeVars, mergeVars>>

\* lines 95-104: one iteration of the while loop of gettransactions
gettransactions_page ==
    /\ pc = "loop"
    /\ fn = "gettransactions"
    /\ LET r == gettransactions_for(PageList(history, page, zeroPage),
                                    collected, after_txid)
       IN  /\ requests' = Append(requests, page)
           /\ IF r.ok
              THEN /\ collected' = r.list
                   /\ page' = page + 1
                   /\ pc' = IF loop_exit(page + 1, Pages(history))
                            THEN "return" ELSE "loop"
              ELSE /\ collected' = unwind(collected)
                   /\ page' = page
                   /\ pc' = "error"
    /\ UNCHANGED <<history, zeroPage, fn, address, after_txid, max_txs,
                   result, prevCall>>
    /\ UNCHANGED <<parseVars, storeVars, mergeVars>>

\* lines 63 / 97: the page request raises (provider unreachable, non-2xx)
request_fails ==
    /\ pc = "loop"
    /\ requests' = Append(requests, page)
    /\ collected' = unwind(collected)
    /\ pc' = "failed"
    /\ UNCHANGED <<history, zeroPage, fn, address, after_txid, max_txs, page,
                   result, prevCall>>
    /\ UNCHANGED <<parseVars, storeVars, mergeVars>>

\* lines 90 / 105: the slice returned
truncate(list, n) == Take(list, n)

\* line 90: return utxos[:max_txs]
getutxos_return ==
    /\ pc = "return"
    /\ fn = "getutxos"
    /\ result' = truncate(collected, max_txs)
    /\ pc' = "done"
    /\ UNCHANGED <<history, zeroPage, fn, address, after_txid, max_txs, page,
                   collected, requests, prevCall>>
    /\ UNCHANGED <<parseVars, storeVars, mergeVars>>

\* line 105: return txs[:max_txs]
gettransactions_return ==
    /\ pc = "return"
    /\ fn = "gettransactions"
    /\ result' = truncate(collected, max_txs)
    /\ pc' = "done"
    /\ UNCHANGED <<history, zeroPage, fn, address, after_txid, max_txs, page,
                   collected, requests, prevCall>>
    /\ UNCHANGED <<parseVars, storeVars, mergeVars>>

Next ==
    \/ getutxos_call
    \/ gettransactions_call
    \/ getutxos_page
    \/ gettransactions_page
    \/ request_fails
    \/ getutxos_return
    \/ gettransactions_return

Spec == Init /\ [][Next]_vars

\* One call followed to its end (specification SpecLive).  A call that has
\* been entered runs on: the interpreter executes the next iteration of the
\* loop, and the return statement after it.  A call starts from fresh
\* locals, so the calls before it do not matter to how it ends; max_txs is
\* read by the return statement only, and is left at its largest value.
NextLive ==
    \/ pc = "idle" /\ getutxos_call /\ max_txs' = MaxMaxTxs
    \/ pc = "idle" /\ gettransactions_call /\ max_txs' = MaxMaxTxs
    \/ getutxos_page
    \/ gettransactions_page
    \/ request_fails
    \/ getutxos_return
    \/ gettransactions_return

SpecLive ==
    /\ Init
    /\ [][NextLive]_vars
    /\ WF_vars(getutxos_page \/ gettransactions_page
                 \/ getutxos_return \/ gettransactions_return)

-----------------------------------------------------------------------------
(* _parse_transaction on its own: gettransaction(txid) fetches the payload  *)
(* of one transaction and parses it; the provider's payload for that        *)
(* transaction changes between fetches (it confirms, or a reorg takes the   *)
(* confirmations away).                                                     *)

\* a record with one more key
With(r, k, v) == r @@ (k :> v)

\* payloads of transaction "t1": coinbase or not, confirmations key absent
\* (~hasConf), null (NoneInt), 0 or positive, with or without block data,
\* with or without per-input amounts
ParsePayload(cb, hasConf, conf, blk, fee, out, amt) ==
    LET base == [txId |-> "t1", hash |-> "t1", timestamp |-> 10, fee |-> fee,
                 size |-> 100, outputsAmount |-> out,
                 inputsAmount |-> IF cb THEN 0 ELSE out + fee,
                 rawTx |-> [coinbase |-> cb, nIn |-> 2, nOut |-> 1],
                 vIn |-> IF amt
                         THEN <<[amount |-> 1, sequence |-> 0],
                                [amount |-> out + fee - 1, sequence |-> 0]>>
                         ELSE <<[sequence |-> 0], [sequence |-> 0]>>,
                 vOut |-> <<[address |-> "addrA", spent |-> FALSE,
                             value |-> out, scriptPubKey |-> "s0"]>>]
        c == IF hasConf THEN With(base, "confirmations", conf) ELSE base
    IN  IF blk THEN With(With(c, "blockHeight", 100), "blockHash", "b100") ELSE c

MaxConf == 2
MaxFee == 2
OutAmounts == {5, 50}

ParsePayloads ==
    {ParsePayload(cb, hasConf, conf, blk, fee, out, amt) :
        cb \in BOOLEAN, hasConf \in BOOLEAN, conf \in {NoneInt} \cup 0..MaxConf,
        blk \in BOOLEAN, fee \in 0..MaxFee, out \in OutAmounts,
        amt \in BOOLEAN}

\* the variables of Spec, at rest
FetchIdle ==
    /\ history = <<>>
    /\ zeroPage = "empty"
    /\ address = "addrA"
    /\ fn = "none"
    /\ after_txid = ""
    /\ max_txs = 0
    /\ page = 0
    /\ collected = <<>>
    /\ requests = <<>>
    /\ pc = "idle"
    /\ result = <<>>
    /\ prevCall = NoCall

InitParse ==
    /\ FetchIdle
    /\ StoreIdle
    /\ MergeIdle
    /\ payload \in ParsePayloads
    /\ parsed = import_raw(NoPayload.rawTx)
    /\ prev_status = "new"
    /\ ppc = "fetched"

\* lines 138-140: gettransaction parses the fetched payload
gettransaction ==
    /\ ppc = "fetched"
    /\ IF parse_raises(payload)
       THEN /\ ppc' = "raised"
            /\ parsed' = parsed
       ELSE /\ ppc' = "parsed"
            /\ parsed' = _parse_transaction(payload)
    /\ UNCHANGED <<payload, prev_status>>
    /\ UNCHANGED <<fetchVars, storeVars, mergeVars>>

\* the provider's next answer for the same transaction
provider_update ==
    /\ ppc \in {"parsed", "raised"}
    /\ payload' \in ParsePayloads
    /\ prev_status' = IF ppc = "parsed" THEN parsed.status ELSE prev_status
    /\ ppc' = "fetched"
    /\ UNCHANGED parsed
    /\ UNCHANGED <<fetchVars, storeVars, mergeVars>>

NextParse ==
    \/ gettransaction
    \/ provider_update

SpecParse == InitParse /\ [][NextParse]_vars

-----------------------------------------------------------------------------
(* Writes against the tables (specification SpecStore).  Every INSERT and  *)
(* UPDATE is one statement: the store applies it when the table's          *)
(* constraints accept the new row and leaves the table alone otherwise.    *)

\* rows in all tables, capped
MaxRows == 1

TotalRows ==
    Cardinality(wallets) + Cardinality(keys) + Cardinality(transactions)
    + Cardinality(inputs) + Cardinality(outputs)

\* base with column col set to each of values
Vary(base, col, values) == {[base EXCEPT ![col] = v] : v \in values}

DefaultWallet ==
    [id |-> 0, name |-> "w1", scheme |-> "bip32", encoding |-> "base58",
     witness_type |-> "legacy", parent_id |-> NoneInt]

DefaultKey ==
    [id |-> 0, wallet_id |-> 1, public |-> NoneStr, private |-> NoneStr,
     wif |-> NoneStr, address |-> NoneStr, key_type |-> "bip32",
     encoding |-> "base58"]

DefaultTransaction ==
    [id |-> 0, wallet_id |-> 1, hash |-> "t1", status |-> "new",
     witness_type |-> "legacy", confirmations |-> 0, block_height |-> NoneInt]

DefaultInput ==
    [transaction_id |-> 1, index_n |-> 0, key_id |-> NoneInt,
     script_type |-> "sig_pubkey", witness_type |-> "legacy"]

DefaultOutput ==
    [transaction_id |-> 1, output_n |-> 0, key_id |-> NoneInt,
     script_type |-> "p2pkh", spent |-> FALSE]

\* the values a writer may put in the enumerated columns: the enumerated
\* ones, NULL, and one that is outside the enumeration
WalletChanges(row) ==
    Vary(row, "scheme", WalletSchemes \cup {NoneStr, "bogus"})
    \cup Vary(row, "encoding", WalletEncodings \cup {NoneStr, "utf16"})
    \cup Vary(row, "witness_type", WalletWitnessTypes \cup {NoneStr, "bogus"})

KeyChanges(row) ==
    Vary(row, "key_type", KeyTypes \cup {NoneStr, "bogus"})
    \cup Vary(row, "encoding", KeyEncodings \cup {NoneStr, "utf16"})

TransactionChanges(row) ==
    Vary(row, "status", TransactionStatuses \cup {NoneStr, "bogus"})
    \cup Vary(row, "witness_type", TransactionWitnessTypes \cup {NoneStr, "p2sh-segwit"})

InputChanges(row) ==
    Vary(row, "script_type", InputScriptTypes \cup {NoneStr, "p2pkh"})
    \cup Vary(row, "witness_type", InputWitnessTypes \cup {NoneStr, "bogus"})

OutputChanges(row) ==
    Vary(row, "script_type", OutputScriptTypes \cup {NoneStr, "sig_pubkey"})

InitStore ==
    /\ FetchIdle
    /\ ParseIdle
    /\ StoreIdle
    /\ MergeIdle

Written(table, row, ok) == [table |-> table, row |-> row, accepted |-> ok]

insert_wallet ==
    /\ TotalRows < MaxRows
    /\ \E name \in {"w1", "w2"}, row \in WalletChanges(DefaultWallet) :
          LET new == [row EXCEPT !.id = next_id(wallets), !.name = name]
              ok == DbWallet_checks(new) /\ DbWallet_unique(new, wallets)
          IN  /\ wallets' = IF ok THEN wallets \cup {new} ELSE wallets
              /\ lastWrite' = Written("wallets", new, ok)
    /\ UNCHANGED <<keys, transactions, inputs, outputs>>
    /\ UNCHANGED <<fetchVars, parseVars, mergeVars>>

update_wallet ==
    /\ \E old \in wallets : \E new \in WalletChanges(old) :
          LET ok == DbWallet_checks(new) /\ DbWallet_unique(new, wallets \ {old})
          IN  /\ wallets' = IF ok THEN (wallets \ {old}) \cup {new} ELSE wallets
              /\ lastWrite' = Written("wallets", new, ok)
    /\ UNCHANGED <<keys, transactions, inputs, outputs>>
    /\ UNCHANGED <<fetchVars, parseVars, mergeVars>>

insert_key ==
    /\ TotalRows < MaxRows
    /\ \E addr \in Addresses, row \in KeyChanges(DefaultKey) :
          LET new == [row EXCEPT !.id = next_id(keys), !.address = addr]
              ok == DbKey_checks(new) /\ DbKey_unique(new, keys)
          IN  /\ keys' = IF ok THEN keys \cup {new} ELSE keys
              /\ lastWrite' = Written("keys", new, ok)
    /\ UNCHANGED <<wallets, transactions, inputs, outputs>>
    /\ UNCHANGED <<fetchVars, parseVars, mergeVars>>

update_key ==
    /\ \E old \in keys : \E new \in KeyChanges(old) :
          LET ok == DbKey_checks(new) /\ DbKey_unique(new, keys \ {old})
          IN  /\ keys' = IF ok THEN (keys \ {old}) \cup {new} ELSE keys
              /\ lastWrite' = Written("keys", new, ok)
    /\ UNCHANGED <<wallets, transactions, inputs, outputs>>
    /\ UNCHANGED <<fetchVars, parseVars, mergeVars>>

insert_transaction ==
    /\ TotalRows < MaxRows
    /\ \E h \in MergeHashes, row \in TransactionChanges(DefaultTransaction) :
          LET new == [row EXCEPT !.id = next_id(transactions), !.hash = h]
              ok == /\ DbTransaction_checks(new)
                    /\ DbTransaction_unique(new, transactions)
          IN  /\ transactions' = IF ok THEN transactions \cup {new}
                                 ELSE transactions
              /\ lastWrite' = Written("transactions", new, ok)
    /\ UNCHANGED <<wallets, keys, inputs, outputs>>
    /\ UNCHANGED <<fetchVars, parseVars, mergeVars>>

update_transaction ==
    /\ \E old \in transactions : \E new \in TransactionChanges(old) :
          LET ok == /\ DbTransaction_checks(new)
                    /\ DbTransaction_unique(new, transactions \ {old})
          IN  /\ transactions' = IF ok THEN (transactions \ {old}) \cup {new}
                                 ELSE transactions
              /\ lastWrite' = Written("transactions", new, ok)
    /\ UNCHANGED <<wallets, keys, inputs, outputs>>
    /\ UNCHANGED <<fetchVars, parseVars, mergeVars>>

insert_input ==
    /\ TotalRows < MaxRows
    /\ \E n \in 0..1, row \in InputChanges(DefaultInput) :
          LET new == [row EXCEPT !.index_n = n]
              ok == /\ DbTransactionInput_checks(new)
                    /\ DbTransactionInput_pk(new, inputs)
          IN  /\ inputs' = IF ok THEN inputs \cup {new} ELSE inputs
              /\ lastWrite' = Written("transaction_inputs", new, ok)
    /\ UNCHANGED <<wallets, keys, transactions, outputs>>
    /\ UNCHANGED <<fetchVars, parseVars, mergeVars>>

update_input ==
    /\ \E old \in inputs : \E new \in InputChanges(old) :
          LET ok == DbTransactionInput_checks(new)
          IN  /\ inputs' = IF ok THEN (inputs \ {old}) \cup {new} ELSE inputs
              /\ lastWrite' = Written("transaction_inputs", new, ok)
    /\ UNCHANGED <<wallets, keys, transactions, outputs>>
    /\ UNCHANGED <<fetchVars, parseVars, mergeVars>>

insert_output ==
    /\ TotalRows < MaxRows
    /\ \E n \in 0..1, row \in OutputChanges(DefaultOutput) :
          LET new == [row EXCEPT !.output_n = n]
              ok == /\ DbTransactionOutput_checks(new)
                    /\ DbTransactionOutput_pk(new, outputs)
          IN  /\ outputs' = IF ok THEN outputs \cup {new} ELSE outputs
              /\ lastWrite' = Written("transaction_outputs", new, ok)
    /\ UNCHANGED <<wallets, keys, transactions, inputs>>
    /\ UNCHANGED <<fetchVars, parseVars, mergeVars>>

update_output ==
    /\ \E old \in outputs : \E new \in OutputChanges(old) :
          LET ok == DbTransactionOutput_checks(new)
          IN  /\ outputs' = IF ok THEN (outputs \ {old}) \cup {new} ELSE outputs
              /\ lastWrite' = Written("transaction_outputs", new, ok)
    /\ UNCHANGED <<wallets, keys, transactions, inputs>>
    /\ UNCHANGED <<fetchVars, parseVars, mergeVars>>

NextStore ==
    \/ insert_wallet
    \/ update_wallet
    \/ insert_key
    \/ update_key
    \/ insert_transaction
    \/ update_transaction
    \/ insert_input
    \/ update_input
    \/ insert_output
    \/ update_output

SpecStore == InitStore /\ [][NextStore]_vars

-----------------------------------------------------------------------------
(* Writes of key material against the keys table (specification SpecKeys): *)
(* the same INSERT and UPDATE statements, with the columns of the four     *)
(* UNIQUE constraints as their inputs.                                     *)

\* key rows, capped
MaxKeys == 2

KeyWallets == {1, 2}

\* the values a writer may put in the columns of the UNIQUE constraints
KeyValueChanges(row) ==
    Vary(row, "wallet_id", KeyWallets)
    \cup Vary(row, "public", {NoneStr, "pubA"})
    \cup Vary(row, "private", {NoneStr, "prvA"})
    \cup Vary(row, "wif", {NoneStr, "wifA"})
    \cup Vary(row, "address", {NoneStr, "addrA"})

InitKeys ==
    /\ FetchIdle
    /\ ParseIdle
    /\ StoreIdle
    /\ MergeIdle

insert_key_row ==
    /\ Cardinality(keys) < MaxKeys
    /\ \E w \in KeyWallets :
       \E row \in KeyValueChanges([DefaultKey EXCEPT !.wallet_id = w]) :
          LET new == [row EXCEPT !.id = next_id(keys)]
              ok == DbKey_checks(new) /\ DbKey_unique(new, keys)
          IN  /\ keys' = IF ok THEN keys \cup {new} ELSE keys
              /\ lastWrite' = Written("keys", new, ok)
    /\ UNCHANGED <<wallets, transactions, inputs, outputs>>
    /\ UNCHANGED <<fetchVars, parseVars, mergeVars>>

update_key_row ==
    /\ \E old \in keys : \E new \in KeyValueChanges(old) :
          LET ok == DbKey_checks(new) /\ DbKey_unique(new, keys \ {old})
          IN  /\ keys' = IF ok THEN (keys \ {old}) \cup {new} ELSE keys
              /\ lastWrite' = Written("keys", new, ok)
    /\ UNCHANGED <<wallets, transactions, inputs, outputs>>
    /\ UNCHANGED <<fetchVars, parseVars, mergeVars>>

NextKeys ==
    \/ insert_key_row
    \/ update_key_row

SpecKeys == InitKeys /\ [][NextKeys]_vars

-----------------------------------------------------------------------------
(* Wallets and their parents (specification SpecTree): INSERT of a wallet  *)
(* and UPDATE of a wallet's parent_id, a foreign key to wallets.id.        *)

\* wallet rows, capped
MaxWallets == 3

\* the name of the wallet created with the given id
WalletName(id) ==
    CASE id = 1 -> "w1" [] id = 2 -> "w2" [] id = 3 -> "w3" [] id = 4 -> "w4"
      [] OTHER -> "w5"

\* the parent ids a writer may give: none, or any id up to one past the cap
WalletParents == {NoneInt} \cup 1..(MaxWallets + 1)

\* FOREIGN KEY (parent_id) REFERENCES wallets(id): NULL, or the id of a row
\* of the table as the statement leaves it
DbWallet_parent_fk(row, others) ==
    row.parent_id = NoneInt \/ \E w \in others \cup {row} : w.id = row.parent_id

InitTree ==
    /\ FetchIdle
    /\ ParseIdle
    /\ StoreIdle
    /\ MergeIdle

insert_wallet_row ==
    /\ Cardinality(wallets) < MaxWallets
    /\ \E par \in WalletParents :
          LET new == [DefaultWallet EXCEPT !.id = next_id(wallets),
                                           !.name = WalletName(next_id(wallets)),
                                           !.parent_id = par]
              ok == /\ DbWallet_checks(new)
                    /\ DbWallet_unique(new, wallets)
                    /\ DbWallet_parent_fk(new, wallets)
          IN  /\ wallets' = IF ok THEN wallets \cup {new} ELSE wallets
              /\ lastWrite' = Written("wallets", new, ok)
    /\ UNCHANGED <<keys, transactions, inputs, outputs>>
    /\ UNCHANGED <<fetchVars, parseVars, mergeVars>>

update_wallet_parent ==
    /\ \E old \in wallets : \E par \in WalletParents :
          LET new == [old EXCEPT !.parent_id = par]
              ok == /\ DbWallet_checks(new)
                    /\ DbWallet_unique(new, wallets \ {old})
                    /\ DbWallet_parent_fk(new, wallets \ {old})
          IN  /\ wallets' = IF ok THEN (wallets \ {old}) \cup {new} ELSE wallets
              /\ lastWrite' = Written("wallets", new, ok)
    /\ UNCHANGED <<keys, transactions, inputs, outputs>>
    /\ UNCHANGED <<fetchVars, parseVars, mergeVars>>

NextTree ==
    \/ insert_wallet_row
    \/ update_wallet_parent

SpecTree == InitTree /\ [][NextTree]_vars

-----------------------------------------------------------------------------
(* Keys, transactions and their inputs and outputs (specification          *)
(* SpecCascade): rows are added through the relationships of the mapped    *)
(* classes, so an input or output is linked to a stored transaction and to *)
(* a stored key or to none, and keys and transactions are deleted through  *)
(* the session, which follows the cascade rules of the relationships.      *)

\* largest id given to a key or to a transaction
MaxIds == 2
\* input and output rows, capped
MaxLinks == 2

\* the hash of the transaction created with the given id
HashOf(id) ==
    CASE id = 1 -> "t1" [] id = 2 -> "t2" [] id = 3 -> "t3" [] OTHER -> "t4"

\* Faulty variant of key_cascade: deleting a key leaves its inputs and outputs.
key_cascade_none(rows, key) == rows

\* relationship(..., cascade="all,delete") of DbKey: the inputs / outputs
\* left when the key is deleted
key_cascade(rows, key) == {r \in rows : r.key_id # key.id}

\* relationship(..., cascade="all,delete") of DbTransaction: the inputs /
\* outputs left when the transaction is deleted
transaction_cascade(rows, t) == {r \in rows : r.transaction_id # t.id}

\* the key ids an input or output may be linked to: a stored key or none
KeyLinks == {NoneInt} \cup {k.id : k \in keys}

Deleted(table, row, n) ==
    [table |-> table, row |-> row, accepted |-> TRUE, cascaded |-> n]

InitCascade ==
    /\ FetchIdle
    /\ ParseIdle
    /\ StoreIdle
    /\ MergeIdle

add_key ==
    /\ next_id(keys) <= MaxIds
    /\ LET new == [DefaultKey EXCEPT !.id = next_id(keys)]
       IN  /\ DbKey_checks(new)
           /\ DbKey_unique(new, keys)
           /\ keys' = keys \cup {new}
           /\ lastWrite' = Written("keys", new, TRUE)
    /\ UNCHANGED <<wallets, transactions, inputs, outputs>>
    /\ UNCHANGED <<fetchVars, parseVars, mergeVars>>

add_transaction ==
    /\ next_id(transactions) <= MaxIds
    /\ LET new == [DefaultTransaction EXCEPT !.id = next_id(transactions),
                                             !.hash = HashOf(next_id(transactions))]
       IN  /\ DbTransaction_checks(new)
           /\ DbTransaction_unique(new, transactions)
           /\ transactions' = transactions \cup {new}
           /\ lastWrite' = Written("transactions", new, TRUE)
    /\ UNCHANGED <<wallets, keys, inputs, outputs>>
    /\ UNCHANGED <<fetchVars, parseVars, mergeVars>>

add_input ==
    /\ Cardinality(inputs) + Cardinality(outputs) < MaxLinks
    /\ \E t \in transactions, k \in KeyLinks :
          LET new == [DefaultInput EXCEPT !.transaction_id = t.id, !.key_id = k]
          IN  /\ DbTransactionInput_checks(new)
              /\ DbTransactionInput_pk(new, inputs)
              /\ inputs' = inputs \cup {new}
              /\ lastWrite' = Written("transaction_inputs", new, TRUE)
    /\ UNCHANGED <<wallets, keys, transactions, outputs>>
    /\ UNCHANGED <<fetchVars, parseVars, mergeVars>>

add_output ==
    /\ Cardinality(inputs) + Cardinality(outputs) < MaxLinks
    /\ \E t \in transactions, k \in KeyLinks :
          LET new == [DefaultOutput EXCEPT !.transaction_id = t.id, !.key_id = k]
          IN  /\ DbTransactionOutput_checks(new)
              /\ DbTransactionOutput_pk(new, outputs)
              /\ outputs' = outputs \cup {new}
              /\ lastWrite' = Written("transaction_outputs", new, TRUE)
    /\ UNCHANGED <<wallets, keys, transactions, inputs>>
    /\ UNCHANGED <<fetchVars, parseVars, mergeVars>>

delete_key ==
    /\ \E k \in keys :
          /\ keys' = keys \ {k}
          /\ inputs' = key_cascade(inputs, k)
          /\ outputs' = key_cascade(outputs, k)
          /\ lastWrite' = Deleted("keys", k,
                 Cardinality(inputs \ key_cascade(inputs, k))
                 + Cardinality(outputs \ key_cascade(outputs, k)))
    /\ UNCHANGED <<wallets, transactions>>
    /\ UNCHANGED <<fetchVars, parseVars, mergeVars>>

delete_transaction ==
    /\ \E t \in transactions :
          /\ transactions' = transactions \ {t}
          /\ inputs' = transaction_cascade(inputs, t)
          /\ outputs' = transaction_cascade(outputs, t)
          /\ lastWrite' = Deleted("transactions", t,
                 Cardinality(inputs \ transaction_cascade(inputs, t))
                 + Cardinality(outputs \ transaction_cascade(outputs, t)))
    /\ UNCHANGED <<wallets, keys>>
    /\ UNCHANGED <<fetchVars, parseVars, mergeVars>>

NextCascade ==
    \/ add_key
    \/ add_transaction
    \/ add_input
    \/ add_output
    \/ delete_key
    \/ delete_transaction

SpecCascade == InitCascade /\ [][NextCascade]_vars

-----------------------------------------------------------------------------
(* Two sync runs merging fetched transactions into the store               *)
(* (specification SpecMerge).  upsert_transaction is the store operation   *)
(* of the ledger: INSERT the record; when the (wallet, hash) constraint    *)
(* rejects it, UPDATE the existing row's mutable fields in place.  Each    *)
(* statement is atomic; the statements of the two runs interleave.         *)

\* the record a run merges for a transaction fetched with n confirmations
merge_record(h, n) ==
    [id |-> 0, wallet_id |-> 1, hash |-> h,
     status |-> derive_status([confirmations |-> n]),
     witness_type |-> "legacy", confirmations |-> n,
     block_height |-> IF n > 0 THEN 100 ELSE NoneInt]

InitMerge ==
    /\ FetchIdle
    /\ ParseIdle
    /\ StoreIdle
    /\ MergeIdle

upsert_begin(r) ==
    /\ run_pc[r] \in {"idle", "done"}
    /\ \E h \in MergeHashes, n \in 0..MaxConf :
          run_rec' = [run_rec EXCEPT ![r] = merge_record(h, n)]
    /\ run_pc' = [run_pc EXCEPT ![r] = "insert"]
    /\ UNCHANGED <<last_upsert, storeVars>>
    /\ UNCHANGED <<fetchVars, parseVars>>

upsert_insert(r) ==
    /\ run_pc[r] = "insert"
    /\ LET new == [run_rec[r] EXCEPT !.id = next_id(transactions)]
           ok == /\ DbTransaction_checks(new)
                 /\ DbTransaction_unique(new, transactions)
       IN  IF ok
           THEN /\ transactions' = transactions \cup {new}
                /\ run_pc' = [run_pc EXCEPT ![r] = "done"]
                /\ last_upsert' = [last_upsert EXCEPT ![new.hash] = run_rec[r]]
           ELSE /\ run_pc' = [run_pc EXCEPT ![r] = "update"]
                /\ UNCHANGED <<transactions, last_upsert>>
    /\ UNCHANGED <<run_rec, wallets, keys, inputs, outputs, lastWrite>>
    /\ UNCHANGED <<fetchVars, parseVars>>

upsert_update(r) ==
    /\ run_pc[r] = "update"
    /\ transactions' =
          {IF t.wallet_id = run_rec[r].wallet_id /\ t.hash = run_rec[r].hash
           THEN [t EXCEPT !.status = run_rec[r].status,
                          !.confirmations = run_rec[r].confirmations,
                          !.block_height = run_rec[r].block_height]
           ELSE t : t \in transactions}
    /\ run_pc' = [run_pc EXCEPT ![r] = "done"]
    /\ last_upsert' = [last_upsert EXCEPT ![run_rec[r].hash] = run_rec[r]]
    /\ UNCHANGED <<run_rec, wallets, keys, inputs, outputs, lastWrite>>
    /\ UNCHANGED <<fetchVars, parseVars>>

NextMerge ==
    \/ \E r \in Runs : upsert_begin(r)
    \/ \E r \in Runs : upsert_insert(r)
    \/ \E r \in Runs : upsert_update(r)

SpecMerge == InitMerge /\ [][NextMerge]_vars

-----------------------------------------------------------------------------
(* What the provider holds, for the statements about the fetch loops *)

\* position of the transaction id in the history, 0 when it is not there
Pos(h, id) ==
    IF \E i \in 1..Len(h) : h[i] = id
    THEN CHOOSE i \in 1..Len(h) : h[i] = id
    ELSE 0

\* the items after position k
After(s, k) == SubSeq(s, k + 1, Len(s))

\* the history as transaction records, in provider order
ParsedHistory(h) == [i \in 1..Len(h) |-> _parse_transaction(Payload(h[i]))]

\* the provider outputs of h that are addressed to addr and unspent, as
\* <<txId, output number>>, in provider order
RECURSIVE UnspentOf(_, _)
UnspentOf(h, addr) ==
    IF h = <<>> THEN <<>>
    ELSE LET tx == Payload(Head(h))
             idx == SelectSeq([k \in 1..Len(tx.vOut) |-> k],
                              LAMBDA k : /\ "address" \in DOMAIN tx.vOut[k]
                                         /\ tx.vOut[k].address = addr
                                         /\ ~tx.vOut[k].spent)
         IN  [j \in 1..Len(idx) |-> <<tx.txId, idx[j] - 1>>] \o UnspentOf(Tail(h), addr)

\* the <<tx_hash, output_n>> of a list of UTXO records
Outpoints(list) == [k \in 1..Len(list) |-> <<list[k].tx_hash, list[k].output_n>>]

-----------------------------------------------------------------------------
(* Statements about the fetch loops (specification Spec) *)

\* C1: when after_txid is the id of a history item, gettransactions returns
\* the items strictly after that item, in provider order (cut to max_txs),
\* for every page split and cursor position.
C1_CursorReturnsSuffix ==
    (pc = "done" /\ fn = "gettransactions" /\ Pos(history, after_txid) > 0)
    => result = Take(After(ParsedHistory(history), Pos(history, after_txid)),
                     max_txs)

\* a cursor at the end of the first page, the next page returned whole
C1_Witness ==
    /\ pc = "done"
    /\ fn = "gettransactions"
    /\ Len(history) = PageSize + 1
    /\ after_txid = history[PageSize]
    /\ result = <<_parse_transaction(Payload(history[PageSize + 1]))>>

\* C2: a getutxos call resumed with after_txid = the tx_hash of the last UTXO
\* record of the previous call returns no UTXO of that transaction or of an
\* earlier one, and every qualifying UTXO of the later ones (up to max_txs).
C2_ResumeSkipsSeen ==
    (/\ pc = "done"
     /\ fn = "getutxos"
     /\ prevCall.fn = "getutxos"
     /\ prevCall.result # <<>>
     /\ after_txid = prevCall.result[Len(prevCall.result)].tx_hash)
    => Outpoints(result) =
         Take(UnspentOf(After(history, Pos(history, after_txid)), address),
              max_txs)

\* C3: a full gettransactions sync (empty cursor) returns every transaction
\* of the history exactly once, in order, up to max_txs, and the same list as
\* the full sync made just before it with the same max_txs.
C3_FullSyncExactlyOnce ==
    (pc = "done" /\ fn = "gettransactions" /\ after_txid = "")
    => /\ result = Take(ParsedHistory(history), max_txs)
       /\ (prevCall.fn = "gettransactions" /\ prevCall.max_txs = max_txs)
            => result = prevCall.result

\* C4: the list returned by either call is the first max_txs new records in
\* provider order, of length min(max_txs, number of new records); the new
\* records are those after the cursor (all of them with an empty cursor).
C4_FirstMaxNewRecords ==
    (pc = "done" /\ (after_txid = "" \/ Pos(history, after_txid) > 0))
    => LET k == Pos(history, after_txid) IN
       IF fn = "gettransactions"
       THEN result = Take(After(ParsedHistory(history), k), max_txs)
       ELSE Outpoints(result) =
              Take(UnspentOf(After(history, k), address), max_txs)

\* C5: every record returned (or collected) by getutxos is a provider output
\* that carries an address, is addressed to the queried address and is
\* unspent.
C5_OnlyUnspentOfAddress ==
    fn = "getutxos" =>
      \A list \in {collected, result} : \A k \in 1..Len(list) :
         /\ list[k].address = address
         /\ \E i \in 1..Len(history) :
               LET tx == Payload(history[i]) IN
               /\ tx.txId = list[k].tx_hash
               /\ list[k].output_n + 1 \in 1..Len(tx.vOut)
               /\ LET utxo == tx.vOut[list[k].output_n + 1] IN
                  /\ "address" \in DOMAIN utxo
                  /\ utxo.address = address
                  /\ ~utxo.spent

\* a returned list next to outputs that are spent, foreign or without address
C5_Witness ==
    /\ pc = "done"
    /\ fn = "getutxos"
    /\ result # <<>>
    /\ \E i, j \in 1..Len(history) :
          /\ \E k \in 1..Len(Payload(history[i]).vOut) :
                LET utxo == Payload(history[i]).vOut[k] IN
                "address" \in DOMAIN utxo /\ utxo.address = address /\ utxo.spent
          /\ \E k \in 1..Len(Payload(history[j]).vOut) :
                "address" \notin DOMAIN Payload(history[j]).vOut[k]

\* C9: a fetch over a history whose payloads lack nothing but the block
\* height/hash of unconfirmed transactions never fails, in both calls, and a
\* returned transaction carries block data exactly when its payload does.
C9_OptionalBlockData ==
    /\ (\A i \in 1..Len(history) : history[i] # "t5") => pc # "error"
    /\ (pc = "done" /\ fn = "gettransactions") =>
          \A k \in 1..Len(result) : \E i \in 1..Len(history) :
             LET tx == Payload(history[i]) IN
             /\ tx.txId = result[k].hash
             /\ result[k].block_height =
                  IF "blockHeight" \in DOMAIN tx THEN tx.blockHeight ELSE NoneInt
             /\ result[k].block_hash =
                  IF "blockHash" \in DOMAIN tx THEN tx.blockHash ELSE NoneStr

-----------------------------------------------------------------------------
(* Statements about _parse_transaction (specification SpecParse) *)

\* C8: the status of a parsed transaction is 'unconfirmed' when its payload
\* carries no confirmation count (null or 0) and 'confirmed' otherwise; it
\* depends on the fetched payload only, not on the status derived before.
C8_StatusFromPayloadOnly ==
    ppc = "parsed" =>
      parsed.status = IF payload.confirmations \in 1..MaxConf
                      THEN "confirmed" ELSE "unconfirmed"

\* a transaction derived confirmed before is now derived unconfirmed
C8_Witness ==
    /\ ppc = "parsed"
    /\ prev_status = "confirmed"
    /\ parsed.status = "unconfirmed"

\* C10: a parsed coinbase has input_total = outputsAmount - fee and none of
\* its inputs' amounts is looked up; any other transaction has input_total =
\* inputsAmount and each input's value = the provider's amount for its
\* index; output_total is always outputsAmount.
C10_CoinbaseAccounting ==
    /\ ppc = "parsed" =>
         /\ parsed.output_total = payload.outputsAmount
         /\ IF payload.rawTx.coinbase
            THEN /\ parsed.input_total = payload.outputsAmount - payload.fee
                 /\ \A k \in 1..Len(parsed.inputs) : parsed.inputs[k].value = 0
            ELSE /\ parsed.input_total = payload.inputsAmount
                 /\ Len(parsed.inputs) = payload.rawTx.nIn
                 /\ \A k \in 1..Len(parsed.inputs) :
                       parsed.inputs[k].value =
                         payload.vIn[parsed.inputs[k].index_n + 1].amount
    /\ ppc = "raised" =>
         \/ "confirmations" \notin DOMAIN payload
         \/ /\ ~payload.rawTx.coinbase
            /\ \E k \in 1..Len(payload.vIn) : "amount" \notin DOMAIN payload.vIn[k]

\* the coinbase of the example, whose inputs carry no amount
C10_Witness ==
    /\ ppc = "parsed"
    /\ payload.rawTx.coinbase
    /\ payload.outputsAmount = 50
    /\ payload.fee = 0
    /\ parsed.input_total = 50
    /\ "amount" \notin DOMAIN payload.vIn[1]

-----------------------------------------------------------------------------
(* Statements about the store (specifications SpecMerge and SpecStore) *)

\* the rows of the transaction of wallet 1 with hash h
RowsOf(h) == {t \in transactions : t.wallet_id = 1 /\ t.hash = h}

\* C6: however the statements of two sync runs upserting the same (wallet,
\* hash) interleave, the store never holds two rows for that (wallet, hash),
\* and once an upsert has completed it holds exactly one, with the
\* confirmation data of the upsert that completed last.
C6_MergeSafety ==
    \A h \in MergeHashes :
        IF last_upsert[h] = NoRec
        THEN RowsOf(h) = {}
        ELSE /\ Cardinality(RowsOf(h)) = 1
             /\ \A t \in RowsOf(h) :
                   /\ t.confirmations = last_upsert[h].confirmations
                   /\ t.status = last_upsert[h].status
                   /\ t.block_height = last_upsert[h].block_height

\* both runs have upserted the same hash with different confirmations; the
\* second lost the INSERT to the constraint and updated the row in place
C6_Witness ==
    /\ run_pc["r1"] = "done"
    /\ run_pc["r2"] = "done"
    /\ run_rec["r1"].hash = run_rec["r2"].hash
    /\ run_rec["r1"].confirmations # run_rec["r2"].confirmations
    /\ last_upsert[run_rec["r2"].hash] = run_rec["r2"]
    /\ \E t \in transactions :
          t.hash = run_rec["r2"].hash
          /\ t.confirmations = run_rec["r2"].confirmations

\* the enumerated columns of a row of the table, with their enumerations
EnumColumns(table) ==
    CASE table = "wallets" ->
           {<<"scheme", WalletSchemes>>, <<"encoding", WalletEncodings>>,
            <<"witness_type", WalletWitnessTypes>>}
      [] table = "keys" ->
           {<<"key_type", KeyTypes>>, <<"encoding", KeyEncodings>>}
      [] table = "transactions" ->
           {<<"status", TransactionStatuses>>,
            <<"witness_type", TransactionWitnessTypes>>}
      [] table = "transaction_inputs" ->
           {<<"script_type", InputScriptTypes>>,
            <<"witness_type", InputWitnessTypes>>}
      [] table = "transaction_outputs" ->
           {<<"script_type", OutputScriptTypes>>}
      [] OTHER -> {}

\* the row holds, in an enumerated column, a value outside the enumeration
\* (NULL is the absence of a value)
OutOfEnum(table, row) ==
    \E ce \in EnumColumns(table) :
        row[ce[1]] # NoneStr /\ row[ce[1]] \notin ce[2]

Table(name) ==
    CASE name = "wallets" -> wallets
      [] name = "keys" -> keys
      [] name = "transactions" -> transactions
      [] name = "transaction_inputs" -> inputs
      [] OTHER -> outputs

TableNames == {"wallets", "keys", "transactions", "transaction_inputs",
               "transaction_outputs"}

\* C7: a write (INSERT or UPDATE) of a row with a status, encoding, scheme,
\* witness type, key type or script type outside its enumeration is rejected
\* and leaves every table unchanged, and no stored row holds such a value.
C7_EnumerationEnforced ==
    /\ [](\A name \in TableNames : \A row \in Table(name) : ~OutOfEnum(name, row))
    /\ []((lastWrite.table # "none" /\ OutOfEnum(lastWrite.table, lastWrite.row))
            => ~lastWrite.accepted)
    /\ [][(lastWrite'.table # "none" /\ ~lastWrite'.accepted)
            => tableVars' = tableVars]_vars

\* a transaction with status 'bogus' was refused while a row is stored
C7_Witness ==
    /\ lastWrite.table = "transactions"
    /\ lastWrite.row.status = "bogus"
    /\ ~lastWrite.accepted
    /\ transactions # {}

-----------------------------------------------------------------------------
(* Further statements about the fetch loops (specification Spec) *)

\* C11: the returned list keeps the provider's order: of any two returned
\* records the earlier one is not later in the provider's history (for UTXO
\* records of one transaction: not a later output of it).
C11_OrderPreserved ==
    pc = "done" =>
      \A i, j \in 1..Len(result) :
         i < j =>
           IF fn = "gettransactions"
           THEN Pos(history, result[i].hash) <= Pos(history, result[j].hash)
           ELSE \/ Pos(history, result[i].tx_hash) < Pos(history, result[j].tx_hash)
                \/ /\ result[i].tx_hash = result[j].tx_hash
                   /\ result[i].output_n <= result[j].output_n

\* the page about to be requested holds an item on which the call raises
PageMalformed ==
    \E k \in 1..Len(PageList(history, page, zeroPage)) :
       LET tx == PageList(history, page, zeroPage)[k] IN
       IF fn = "gettransactions" THEN parse_raises(tx)
       ELSE getutxos_raises(tx, address)

\* C12: a call whose page request fails, or which meets an item lacking a key
\* it reads, ends with an error and hands over nothing: no list is returned
\* and nothing collected from that page or from earlier pages survives.
C12_NoPartialResult ==
    /\ [](pc \in {"error", "failed"} => (result = <<>> /\ collected = <<>>))
    /\ [][(pc = "loop" /\ PageMalformed) => pc' \in {"error", "failed"}]_vars

\* getutxos raised on its second page after its first page had given records
C12_Witness ==
    /\ pc = "error"
    /\ fn = "getutxos"
    /\ after_txid = ""
    /\ Len(requests) = 2
    /\ UnspentOf(Take(history, PageSize), address) # <<>>
    /\ result = <<>>

-----------------------------------------------------------------------------
(* Statements about merging fetched transactions (specification SpecMerge) *)

\* the order new < incomplete < unconfirmed < confirmed
StatusRank(st) ==
    CASE st = "new" -> 0
      [] st = "incomplete" -> 1
      [] st = "unconfirmed" -> 2
      [] OTHER -> 3

\* the block data of the stored row old are revised by the row new: old was
\* in a block, and new is in another block or none, or has fewer confirmations
Revised(old, new) ==
    /\ old.block_height # NoneInt
    /\ \/ new.block_height # old.block_height
       \/ new.confirmations < old.confirmations

-----------------------------------------------------------------------------
(* Statements about the keys table (specification SpecKeys) *)

KeyUniqueColumns == {"public", "private", "wif", "address"}

\* two key rows of one wallet holding the same value in column c (NULL is
\* the absence of a value, and of a wallet)
KeyClash(a, b, c) ==
    /\ a.wallet_id = b.wallet_id
    /\ a.wallet_id # NoneInt
    /\ a[c] = b[c]
    /\ a[c] # NoneStr

\* C14: no two stored key rows of one wallet share a public, private, wif or
\* address value; a write whose row would share one with another stored row
\* is rejected and leaves the table unchanged.
C14_KeyUniqueness ==
    /\ [](\A a, b \in keys : \A c \in KeyUniqueColumns :
             KeyClash(a, b, c) => a = b)
    /\ []((lastWrite.table = "keys" /\ lastWrite.accepted)
            => lastWrite.row \in keys)
    /\ [][(/\ lastWrite'.table = "keys"
           /\ \E b \in keys : \E c \in KeyUniqueColumns :
                 /\ b.id # lastWrite'.row.id
                 /\ KeyClash(lastWrite'.row, b, c))
          => (~lastWrite'.accepted /\ keys' = keys)]_vars

\* a second key with the wif of a stored key of the same wallet was refused,
\* next to two stored keys of the wallet that share no value
C14_Witness ==
    /\ lastWrite.table = "keys"
    /\ ~lastWrite.accepted
    /\ lastWrite.row.wif # NoneStr
    /\ Cardinality(keys) = 2
    /\ \E b \in keys :
          /\ b.id # lastWrite.row.id
          /\ KeyClash(lastWrite.row, b, "wif")
          /\ \A c \in KeyUniqueColumns \ {"wif"} : ~KeyClash(lastWrite.row, b, c)

-----------------------------------------------------------------------------
(* Statements about the wallets table (specification SpecTree) *)

\* the parent_id of the wallet with the given id (NULL when there is none)
ParentId(id) ==
    IF \E w \in wallets : w.id = id
    THEN (CHOOSE w \in wallets : w.id = id).parent_id
    ELSE NoneInt

\* following at most n parent links from wallet from arrives at wallet target
RECURSIVE ReachesUp(_, _, _)
ReachesUp(from, target, n) ==
    /\ n > 0
    /\ ParentId(from) # NoneInt
    /\ \/ ParentId(from) = target
       \/ ReachesUp(ParentId(from), target, n - 1)

\* C15: the parent relation over the stored wallets is a forest: following
\* parent links from a wallet never comes back to it (in particular no
\* wallet is its own parent).
C15_WalletForest ==
    \A w \in wallets : ~ReachesUp(w.id, w.id, Cardinality(wallets))

-----------------------------------------------------------------------------
(* Statements about deletes (specification SpecCascade) *)

\* the row is linked to a stored transaction, and to a stored key or to none
LinkedToStored(r) ==
    /\ \E t \in transactions : t.id = r.transaction_id
    /\ r.key_id = NoneInt \/ \E k \in keys : k.id = r.key_id

\* C16: no stored input or output is linked to a key or a transaction that
\* is not stored; the step that deletes a key leaves no input or output
\* linked to it, and the step that deletes a transaction leaves none of its
\* inputs and outputs.
C16_CascadeDelete ==
    /\ [](\A r \in inputs : LinkedToStored(r))
    /\ [](\A r \in outputs : LinkedToStored(r))
    /\ [][\A k \in keys \ keys' :
             /\ \A r \in inputs' : r.key_id # k.id
             /\ \A r \in outputs' : r.key_id # k.id]_vars
    /\ [][\A t \in transactions \ transactions' :
             /\ \A r \in inputs' : r.transaction_id # t.id
             /\ \A r \in outputs' : r.transaction_id # t.id]_vars

\* a key has just been deleted together with an input and an output that
\* were linked to it, while its transaction stays
C16_Witness ==
    /\ lastWrite.table = "keys"
    /\ "cascaded" \in DOMAIN lastWrite
    /\ lastWrite.cascaded = 2
    /\ inputs = {}
    /\ outputs = {}
    /\ transactions # {}
    /\ \A k \in keys : k.id # lastWrite.row.id

-----------------------------------------------------------------------------
(* Statements about the page requests (specifications Spec and SpecLive) *)

\* the page numbers 1..n
PageNumbers(n) == [i \in 1..n |-> i]

\* C17: a call that has left its loop has requested the provider's pages
\* 1, 2, ..., pages, each once and in this order (page 1 alone when the
\* provider reports 0 or 1 pages), whichever of the two calls it is.
C17_MirroredPaging ==
    pc \in {"return", "done"} =>
      requests = PageNumbers(IF Pages(history) = 0 THEN 1 ELSE Pages(history))

\* C18: an entered call ends (it returns, or an exception leaves it) after
\* finitely many page requests; it has made at least one request when it
\* returns, and it leaves the loop after a response exactly when the next
\* page number exceeds the page count of that response.
C18_FetchTerminates ==
    /\ (pc = "loop") ~> (pc \in {"done", "error", "failed"})
    /\ [](pc \in {"return", "done"} => Len(requests) >= 1)
    /\ [][(pc = "loop" /\ pc' \in {"loop", "return"})
            => /\ page' = page + 1
               /\ Len(requests') = Len(requests) + 1
               /\ (pc' = "return") <=> (page' > Pages(history))]_vars
    /\ [][pc = "return" => pc' = "done"]_vars

\* gettransactions has returned after requesting more than one page
C18_Witness ==
    /\ pc = "done"
    /\ fn = "gettransactions"
    /\ Pages(history) = 2
    /\ Len(requests) = 3
    /\ page = 3

\* the cursor is the txId or the hash of no item of the history
UnknownCursor ==
    /\ after_txid # ""
    /\ \A i \in 1..Len(history) :
          /\ Payload(history[i]).txId # after_txid
          /\ Payload(history[i]).hash # after_txid

\* C19: a call with a cursor that matches no item of a history of well-formed
\* items does not fail and returns what a full sync returns: the full
\* history (for getutxos its unspent outputs of the address), cut to max_txs.
C19_UnknownCursorFullSync ==
    (/\ pc \in {"done", "error"}
     /\ UnknownCursor
     /\ \A i \in 1..Len(history) : history[i] # "t5")
    => /\ pc = "done"
       /\ IF fn = "gettransactions"
          THEN result = Take(ParsedHistory(history), max_txs)
          ELSE Outpoints(result) = Take(UnspentOf(history, address), max_txs)

====
